---- MODULE Spec2Model ----
(***************************************************************************)
(* Model of the weechat command parser (src/src/lib.rs): the fluent        *)
(* Command builder, the recursive matcher Command::parse_from, the string  *)
(* entry point Command::parse and the ParsedCommand accessors.             *)
(*                                                                         *)
(* A Command is the record [name, flags, args, subcommands]; an            *)
(* Option<T> is a sequence of length 0 (None) or 1 (Some); a Result is a   *)
(* record tagged "Ok" / "Err"; an index-out-of-range abort of a Vec        *)
(* operation is the outcome tagged "panic".                                *)
(***************************************************************************)
EXTENDS Integers, Sequences, FiniteSets, TLC

\* ------------------------------------------------------------------ bounds
\* Total number of commands, flags and rules of the schemas under construction.
MaxSize == 4
\* The same, for the schemas handed to parse.
MaxLineSize == 3
\* Longest token sequence handed to parse_from.
MaxTokens == 3
\* Longest input string handed to parse, in characters.
MaxLine == 3
\* Longest slice handed to the bulk builder call flags(&[..]).
MaxSlice == 2

\* ------------------------------------------------------------ input alphabets
\* parse_from is driven with non-empty tokens
CmdNames == {"r", "s"}
FlagToks == {"f", "s"}
ArgNames == {"one", "two"}
Toks     == {"r", "s", "f", "x"}
\* parse is driven with strings, whose split yields empty tokens as well
LineCmdNames == {"s", ""}
LineFlagToks == {"f", ""}
LineArgNames == {"one"}
Chars        == {" ", "s", "f"}

SeqsUpTo(S, n) == UNION {[1..k -> S] : k \in 0..n}

\* ------------------------------------------------------------ Option / Result
None == <<>>
Some(x) == <<x>>
Ok(v) == [kind |-> "Ok", val |-> v]
RequiredArgMissing(a) == [variant |-> "RequiredArgMissing", arg |-> a]
Err(e) == [kind |-> "Err", err |-> e]
Panic == [kind |-> "panic"]
NoCall == [kind |-> "none"]

\* impl Display for Error
Display(e) == "Missing required arg \"" \o e.arg \o "\""

\* ------------------------------------------------------------------ Vec
\* Vec::get(0)
VecGet0(v) == IF Len(v) > 0 THEN Some(v[1]) ELSE None
\* Vec::remove(0): aborts when the vector is empty
VecRemove0(v) == IF Len(v) > 0 THEN [ok |-> TRUE, vec |-> Tail(v)] ELSE [ok |-> FALSE]
\* &v[1..]: aborts when 1 > len
SliceFrom1(v) == IF 1 <= Len(v) THEN [ok |-> TRUE, vec |-> SubSeq(v, 2, Len(v))] ELSE [ok |-> FALSE]

\* ------------------------------------------------------------------ builder
ArgRule(n, req) == [name |-> n, required |-> req]

CommandNew(n) == [name |-> n, flags |-> {}, args |-> <<>>, subcommands |-> <<>>]

CommandFlag(self, f) == [self EXCEPT !.flags = @ \cup {f}]

CommandFlags(self, fs) == [self EXCEPT !.flags = @ \cup {fs[i] : i \in 1..Len(fs)}]

CommandArg(self, n, req) == [self EXCEPT !.args = Append(@, ArgRule(n, req))]

CommandSubcommand(self, sub) == [self EXCEPT !.subcommands = Append(@, sub)]

\* ------------------------------------------------------------------ matcher
RECURSIVE ParseFrom(_, _)
RECURSIVE SubcommandLoop(_, _, _, _)
RECURSIVE FlagLoop(_, _, _, _, _)
RECURSIVE BindLoop(_, _, _, _)
RECURSIVE TakeWhileContains(_, _)
RECURSIVE FilterContains(_, _)
RECURSIVE SubcommandLoopSwallow(_, _, _, _)
RECURSIVE BindLoopLenient(_, _, _, _)
RECURSIVE BindLoopStrict(_, _, _, _)
RECURSIVE BindLoopFromEnd(_, _, _, _)

\* faulty variant: the first token is kept even when it is the command's name
StripNameNever(self, v) == [ok |-> TRUE, vec |-> v]

\* faulty variant: the first token is removed without looking at it
StripNameAlways(self, v) == VecRemove0(v)

\* lines 81-83: drop the first token when it is this command's name
StripName(self, v) ==
    IF VecGet0(v) = Some(self.name) THEN VecRemove0(v) ELSE [ok |-> TRUE, vec |-> v]

\* faulty variant: a failing child is skipped and the next sibling is tried
SubcommandLoopSwallow(self, v, i, matched) ==
    IF i > Len(self.subcommands) THEN Ok(matched)
    ELSE LET subcommand == self.subcommands[i] IN
         IF VecGet0(v) = Some(subcommand.name)
         THEN LET rest == SliceFrom1(v) IN
              IF ~rest.ok THEN Panic
              ELSE LET r == ParseFrom(subcommand, rest.vec) IN
                   IF r.kind # "Ok" THEN SubcommandLoopSwallow(self, v, i + 1, matched)
                   ELSE SubcommandLoopSwallow(self, v, i + 1,
                                              Some(<<subcommand.name, r.val>>))
         ELSE SubcommandLoopSwallow(self, v, i + 1, matched)

\* lines 85-92: the loop over self.subcommands from index i on, with the
\* match recorded so far; the ? operator returns the child's error at once
SubcommandLoop(self, v, i, matched) ==
    IF i > Len(self.subcommands) THEN Ok(matched)
    ELSE LET subcommand == self.subcommands[i] IN
         IF VecGet0(v) = Some(subcommand.name)
         THEN LET rest == SliceFrom1(v) IN
              IF ~rest.ok THEN Panic
              ELSE LET r == ParseFrom(subcommand, rest.vec) IN
                   IF r.kind # "Ok" THEN r
                   ELSE SubcommandLoop(self, v, i + 1, Some(<<subcommand.name, r.val>>))
         ELSE SubcommandLoop(self, v, i + 1, matched)

\* faulty variant: filter in place of take_while, a scan of the whole list
FilterContains(set, v) ==
    IF v = <<>> THEN <<>>
    ELSE IF Head(v) \in set THEN <<Head(v)>> \o FilterContains(set, Tail(v))
         ELSE FilterContains(set, Tail(v))

\* lines 94-97: args.clone().into_iter().take_while(|arg| self.flags.contains(arg))
TakeWhileContains(set, v) ==
    IF v = <<>> \/ Head(v) \notin set THEN <<>>
    ELSE <<Head(v)>> \o TakeWhileContains(set, Tail(v))

\* lines 98-101: the loop body, run for the items of the take_while iterator
FlagLoop(self, items, i, v, flags) ==
    IF i > Len(items) THEN [ok |-> TRUE, vec |-> v, flags |-> flags]
    ELSE LET rem == VecRemove0(v) IN
         IF ~rem.ok THEN [ok |-> FALSE]
         ELSE FlagLoop(self, items, i + 1, rem.vec, flags \cup {items[i]})

\* lines 94-101
ConsumeFlags(self, v) == FlagLoop(self, TakeWhileContains(self.flags, v), 1, v, {})

\* faulty variant: a required rule without a token is passed over
BindLoopLenient(rules, v, k, parsed_args) ==
    IF k > Len(rules) THEN Ok(parsed_args)
    ELSE IF k <= Len(v)
         THEN BindLoopLenient(rules, v, k + 1,
                              Append(parsed_args, [name |-> rules[k].name, value |-> v[k]]))
         ELSE BindLoopLenient(rules, v, k + 1, parsed_args)

\* faulty variant: every rule without a token fails, optional or not
BindLoopStrict(rules, v, k, parsed_args) ==
    IF k > Len(rules) THEN Ok(parsed_args)
    ELSE IF k <= Len(v)
         THEN BindLoopStrict(rules, v, k + 1,
                             Append(parsed_args, [name |-> rules[k].name, value |-> v[k]]))
         ELSE Err(RequiredArgMissing(rules[k].name))

\* faulty variant: the tokens are taken from the end of the list (pop)
BindLoopFromEnd(rules, v, k, parsed_args) ==
    IF k > Len(rules) THEN Ok(parsed_args)
    ELSE IF k <= Len(v)
         THEN BindLoopFromEnd(rules, v, k + 1,
                              Append(parsed_args,
                                     [name |-> rules[k].name, value |-> v[Len(v) - k + 1]]))
         ELSE IF rules[k].required
              THEN Err(RequiredArgMissing(rules[k].name))
              ELSE BindLoopFromEnd(rules, v, k + 1, parsed_args)

\* lines 103-121: zip the rules with the tokens followed by None forever
BindLoop(rules, v, k, parsed_args) ==
    IF k > Len(rules) THEN Ok(parsed_args)
    ELSE IF k <= Len(v)
         THEN BindLoop(rules, v, k + 1,
                       Append(parsed_args, [name |-> rules[k].name, value |-> v[k]]))
         ELSE IF rules[k].required
              THEN Err(RequiredArgMissing(rules[k].name))
              ELSE BindLoop(rules, v, k + 1, parsed_args)

\* faulty variant: a matched subcommand name is consumed at the parent level
ParseFromConsuming(self, iter) ==
    LET s == StripName(self, iter) IN
    IF ~s.ok THEN Panic
    ELSE LET m == SubcommandLoop(self, s.vec, 1, None) IN
         IF m.kind # "Ok" THEN m
         ELSE LET left == IF m.val = None THEN s.vec ELSE Tail(s.vec)
                  f == ConsumeFlags(self, left)
              IN
              IF ~f.ok THEN Panic
              ELSE LET b == BindLoop(self.args, f.vec, 1, <<>>) IN
                   IF b.kind # "Ok" THEN b
                   ELSE Ok([command |-> self.name,
                            flags |-> f.flags,
                            args |-> b.val,
                            subcommand_match |-> m.val])

\* lines 71-129
ParseFrom(self, iter) ==
    LET s == StripName(self, iter) IN
    IF ~s.ok THEN Panic
    ELSE LET m == SubcommandLoop(self, s.vec, 1, None) IN
         IF m.kind # "Ok" THEN m
         ELSE LET f == ConsumeFlags(self, s.vec) IN
              IF ~f.ok THEN Panic
              ELSE LET b == BindLoop(self.args, f.vec, 1, <<>>) IN
                   IF b.kind # "Ok" THEN b
                   ELSE Ok([command |-> self.name,
                            flags |-> f.flags,
                            args |-> b.val,
                            subcommand_match |-> m.val])

\* str::split(' '): one token per maximal space-free piece, an empty token
\* between two adjacent spaces and at a leading or trailing space
RECURSIVE SplitLoop(_, _, _)
SplitLoop(input, i, cur) ==
    IF i > Len(input) THEN <<cur>>
    ELSE IF input[i] = " " THEN <<cur>> \o SplitLoop(input, i + 1, "")
         ELSE SplitLoop(input, i + 1, cur \o input[i])

Split(input) == SplitLoop(input, 1, "")

\* faulty variant: runs of spaces are one separator (split_whitespace)
RECURSIVE DropEmpty(_)
DropEmpty(v) ==
    IF v = <<>> THEN <<>>
    ELSE IF Head(v) = "" THEN DropEmpty(Tail(v)) ELSE <<Head(v)>> \o DropEmpty(Tail(v))

ParseSplitWhitespace(self, input) == ParseFrom(self, DropEmpty(Split(input)))

\* lines 131-133
Parse(self, input) == ParseFrom(self, Split(input))

\* ------------------------------------------------------------------ accessors
has_flag(p, flag) == flag \in p.flags

RECURSIVE FindArg(_, _, _)
FindArg(list, n, i) ==
    IF i > Len(list) THEN None
    ELSE IF list[i].name = n THEN Some(list[i].value) ELSE FindArg(list, n, i + 1)

arg(p, n) == FindArg(p.args, n, 1)

args(p) == [i \in 1..Len(p.args) |-> p.args[i].value]

subcommand(p) == p.subcommand_match

command(p) == p.command

\* ------------------------------------------------------------------ state
VARIABLES
    stack,      \* the Command values of the builder expression being evaluated, outermost first
    schema,     \* Some(the Command the latest parse call was made on), or None
    via,        \* "none", "parse_from" or "parse": the entry point of the latest call
    line,       \* the string handed to parse (a sequence of characters)
    tokens,     \* the token sequence handed to parse_from
    outcome     \* what the latest call returned

vars == <<stack, schema, via, line, tokens, outcome>>

RECURSIVE Size(_)
RECURSIVE SizeAll(_)
SizeAll(cs) == IF cs = <<>> THEN 0 ELSE Size(Head(cs)) + SizeAll(Tail(cs))
Size(c) == 1 + Cardinality(c.flags) + Len(c.args) + SizeAll(c.subcommands)

Top == stack[Len(stack)]
ReplaceTop(c) == [stack EXCEPT ![Len(stack)] = c]
\* the value returned by the previous call is dropped when a new expression is built
Forget ==
    /\ schema' = None
    /\ via' = "none"
    /\ line' = <<>>
    /\ tokens' = <<>>
    /\ outcome' = NoCall

Init ==
    /\ stack = <<>>
    /\ schema = None
    /\ via = "none"
    /\ line = <<>>
    /\ tokens = <<>>
    /\ outcome = NoCall

\* Command::new(n): a nested builder expression starts
New(names, max) ==
    /\ SizeAll(stack) < max
    /\ \E n \in names : stack' = Append(stack, CommandNew(n))
    /\ Forget

\* .flag(f) on the innermost expression
Flag(toks, max) ==
    /\ stack # <<>>
    /\ \E f \in toks :
         /\ SizeAll(ReplaceTop(CommandFlag(Top, f))) <= max
         /\ stack' = ReplaceTop(CommandFlag(Top, f))
    /\ Forget

\* .flags(&[..]) on the innermost expression
Flags(toks, max) ==
    /\ stack # <<>>
    /\ \E fs \in SeqsUpTo(toks, MaxSlice) :
         /\ SizeAll(ReplaceTop(CommandFlags(Top, fs))) <= max
         /\ stack' = ReplaceTop(CommandFlags(Top, fs))
    /\ Forget

\* .arg(n, req) on the innermost expression
Arg(names, max) ==
    /\ stack # <<>>
    /\ SizeAll(stack) < max
    /\ \E n \in names, req \in BOOLEAN : stack' = ReplaceTop(CommandArg(Top, n, req))
    /\ Forget

\* .subcommand(<innermost expression>) on the one enclosing it
Subcommand ==
    /\ Len(stack) >= 2
    /\ stack' = Append(SubSeq(stack, 1, Len(stack) - 2),
                       CommandSubcommand(stack[Len(stack) - 1], Top))
    /\ Forget

\* .parse_from(t) ends the builder expression
CallParseFrom ==
    /\ Len(stack) = 1
    /\ \E t \in SeqsUpTo(Toks, MaxTokens) :
         /\ tokens' = t
         /\ outcome' = ParseFrom(stack[1], t)
    /\ schema' = Some(stack[1])
    /\ via' = "parse_from"
    /\ line' = <<>>
    /\ stack' = <<>>

\* .parse(l) ends the builder expression
CallParse ==
    /\ Len(stack) = 1
    /\ \E l \in SeqsUpTo(Chars, MaxLine) :
         /\ line' = l
         /\ tokens' = Split(l)
         /\ outcome' = Parse(stack[1], l)
    /\ schema' = Some(stack[1])
    /\ via' = "parse"
    /\ stack' = <<>>

Next ==
    \/ New(CmdNames, MaxSize)
    \/ Flag(FlagToks, MaxSize)
    \/ Flags(FlagToks, MaxSize)
    \/ Arg(ArgNames, MaxSize)
    \/ Subcommand
    \/ CallParseFrom

Spec == Init /\ [][Next]_vars

NextLine ==
    \/ New(LineCmdNames, MaxLineSize)
    \/ Flag(LineFlagToks, MaxLineSize)
    \/ Flags(LineFlagToks, MaxLineSize)
    \/ Arg(LineArgNames, MaxLineSize)
    \/ Subcommand
    \/ CallParse

SpecLine == Init /\ [][NextLine]_vars

\* ------------------------------------------------------------------ vocabulary of the claims
Called == via # "none"
IsOk == outcome.kind = "Ok"
IsErr == outcome.kind = "Err"
\* the Command the latest call was made on, and its result
Cmd == schema[1]
Res == outcome.val

Min(a, b) == IF a < b THEN a ELSE b
Least(S) == CHOOSE x \in S : \A y \in S : x <= y

\* the tokens left once an optional leading command name is discarded
Stripped(c, t) == IF t # <<>> /\ t[1] = c.name THEN Tail(t) ELSE t
\* length of the longest leading run of t whose tokens all belong to fs
RunLen(fs, t) ==
    CHOOSE n \in 0..Len(t) :
        /\ \A i \in 1..n : t[i] \in fs
        /\ n < Len(t) => t[n + 1] \notin fs
\* the positional tokens of level c on input t
Positional(c, t) ==
    LET r == Stripped(c, t) IN SubSeq(r, RunLen(c.flags, r) + 1, Len(r))
\* the children of c whose name is the first token left after stripping
Matching(c, t) ==
    LET r == Stripped(c, t) IN
    {j \in 1..Len(c.subcommands) : r # <<>> /\ c.subcommands[j].name = r[1]}
\* what parsing child j of c yields on the tokens after its name
ChildOutcome(c, t, j) == ParseFrom(c.subcommands[j], Tail(Stripped(c, t)))
\* the matching children whose parse fails
Failing(c, t) == {j \in Matching(c, t) : ChildOutcome(c, t, j).kind = "Err"}
\* the required rules of c for which no positional token remains
Unmet(c, t) ==
    {i \in 1..Len(c.args) : c.args[i].required /\ i > Len(Positional(c, t))}

RECURSIVE AllOptional(_)
AllOptional(c) ==
    /\ \A i \in 1..Len(c.args) : ~c.args[i].required
    /\ \A j \in 1..Len(c.subcommands) : AllOptional(c.subcommands[j])

\* the schema levels a call on c with tokens t parses, each with its tokens:
\* c itself, and every matching child that is reached before a child fails
RECURSIVE Levels(_, _)
Levels(c, t) ==
    {<<c, t>>} \cup
    UNION {Levels(c.subcommands[j], Tail(Stripped(c, t))) :
             j \in {k \in Matching(c, t) : \A e \in Failing(c, t) : e >= k}}

\* ------------------------------------------------------------------ claims

\* C1: after the optional leading command name is stripped, the flag set of
\* the result is exactly the set of tokens of the longest leading run of
\* declared flags; the tokens after the run, declared flags among them, stay
\* positional values in input order.
C1_FlagPrefix ==
    (Called /\ IsOk) =>
        LET r == Stripped(Cmd, tokens)
            n == RunLen(Cmd.flags, r)
        IN /\ Res.flags = {r[i] : i \in 1..n}
           /\ \A f \in Cmd.flags : has_flag(Res, f) <=> \E i \in 1..n : r[i] = f
           /\ \A k \in 1..Len(args(Res)) : args(Res)[k] = r[n + k]

\* a declared flag occurs after the first non-flag token and is bound as a value
C1_Witness ==
    /\ via = "parse_from" /\ IsOk
    /\ LET r == Stripped(Cmd, tokens)
           n == RunLen(Cmd.flags, r)
       IN /\ n >= 1
          /\ \E k \in 1..Len(args(Res)) : k >= 2 /\ r[n + k] \in Cmd.flags
                                          /\ args(Res)[k] = r[n + k]

C3_OptionalNeverFails ==
    (Called /\ AllOptional(Cmd)) =>
        /\ IsOk
        /\ Len(Res.args) = Min(Len(Cmd.args), Len(Positional(Cmd, tokens)))
        /\ \A k \in 1..Len(Res.args) : Res.args[k].value = Positional(Cmd, tokens)[k]

\* rules [one?, two?] with a single positional token: one entry
C3_Witness ==
    /\ via = "parse_from" /\ IsOk /\ AllOptional(Cmd)
    /\ Len(Cmd.args) = 2
    /\ Len(Positional(Cmd, tokens)) = 1
    /\ Len(args(Res)) = 1

\* C4: the recorded subcommand match is the first child in declaration order
\* whose name equals the first token left after stripping, paired with the
\* result of parsing the following tokens against that child; later children
\* do not replace it; without such a child subcommand() is absent.
C4_FirstMatchWins ==
    (Called /\ IsOk) =>
        IF Matching(Cmd, tokens) = {}
        THEN subcommand(Res) = None
        ELSE LET j == Least(Matching(Cmd, tokens)) IN
             /\ ChildOutcome(Cmd, tokens, j).kind = "Ok"
             /\ subcommand(Res) =
                    Some(<<Cmd.subcommands[j].name, ChildOutcome(Cmd, tokens, j).val>>)

\* C5 as stated: for every token sequence t, parsing t and parsing the root
\* name followed by t give the same outcome.
C5_Original ==
    Called => outcome = ParseFrom(Cmd, <<Cmd.name>> \o tokens)

\* C5 amended: for every token sequence t that does not itself begin with
\* the root name, parsing t and parsing the root name followed by t give the
\* same outcome.
C5_NameOptional ==
    (Called /\ (tokens = <<>> \/ tokens[1] # Cmd.name)) =>
        outcome = ParseFrom(Cmd, <<Cmd.name>> \o tokens)

\* a successful parse without the root name, with a subcommand and a value bound
C5_Witness ==
    /\ via = "parse_from" /\ IsOk
    /\ tokens # <<>> /\ tokens[1] # Cmd.name
    /\ subcommand(Res) # None
    /\ Len(Res.args) >= 1
    /\ outcome = ParseFrom(Cmd, <<Cmd.name>> \o tokens)

\* C6: when the first matching child fails its parse, the enclosing call
\* fails with that same error; no later sibling is tried in its place.
C6_ChildErrorPropagates ==
    (Called /\ Matching(Cmd, tokens) # {}) =>
        LET j == Least(Matching(Cmd, tokens)) IN
        ChildOutcome(Cmd, tokens, j).kind = "Err" =>
            outcome = ChildOutcome(Cmd, tokens, j)

\* the first matching child fails although a later sibling of the same name
\* would parse the same tokens
C6_Witness ==
    /\ via = "parse_from" /\ IsErr
    /\ Matching(Cmd, tokens) # {}
    /\ LET j == Least(Matching(Cmd, tokens)) IN
       /\ ChildOutcome(Cmd, tokens, j).kind = "Err"
       /\ \E k \in Matching(Cmd, tokens) : k > j /\ ChildOutcome(Cmd, tokens, k).kind = "Ok"
    /\ Unmet(Cmd, tokens) = {}

\* C7: on success args() is the first min(n, len) positional tokens in input
\* order, the k-th bound value carries the name of the k-th rule, and surplus
\* tokens are dropped without an error.
C7_PositionalBinding ==
    Called =>
        LET pos == Positional(Cmd, tokens)
            n == Len(Cmd.args)
        IN /\ IsOk =>
                /\ args(Res) = SubSeq(pos, 1, Min(n, Len(pos)))
                /\ \A k \in 1..Len(Res.args) :
                       /\ Res.args[k].name = Cmd.args[k].name
                       /\ arg(Res, Cmd.args[k].name) # None
           /\ (Len(pos) >= n /\ Failing(Cmd, tokens) = {}) => IsOk

\* more positional tokens than rules: the surplus is dropped
C7_Witness ==
    /\ via = "parse_from" /\ IsOk
    /\ Len(Cmd.args) = 2
    /\ Cmd.args[1].name # Cmd.args[2].name
    /\ Len(Positional(Cmd, tokens)) = 3
    /\ args(Res) = SubSeq(Positional(Cmd, tokens), 1, 2)

\* the characters of a string, concatenated
RECURSIVE Flat(_)
Flat(l) == IF l = <<>> THEN "" ELSE Head(l) \o Flat(Tail(l))
\* the tokens joined with single spaces
RECURSIVE Join(_)
Join(t) == IF Len(t) = 1 THEN t[1] ELSE t[1] \o " " \o Join(Tail(t))
Spaces(l) == Cardinality({i \in 1..Len(l) : l[i] = " "})
\* parse hands parse_from the pieces between the spaces of the string
SplitOnEverySpace ==
    /\ Len(tokens) = Spaces(line) + 1
    /\ Join(tokens) = Flat(line)
    /\ \A i \in 1..Len(line) - 1 :
           (line[i] = " " /\ line[i + 1] = " ") => \E k \in 1..Len(tokens) : tokens[k] = ""
    /\ (line # <<>> /\ line[1] = " ") => tokens[1] = ""
    /\ (line # <<>> /\ line[Len(line)] = " ") => tokens[Len(tokens)] = ""
    /\ outcome = ParseFrom(Cmd, tokens)
\* neither a flag nor the name of the level or of one of its children is empty
EmptyFree(c) ==
    /\ "" \notin c.flags
    /\ c.name # ""
    /\ \A j \in 1..Len(c.subcommands) : c.subcommands[j].name # ""

\* C8 as stated: parse(s) is parse_from on s split at every single space, and
\* for every schema an empty token equals no flag and no command name and is
\* bound as an empty positional value.
C8_Original ==
    via = "parse" =>
        /\ SplitOnEverySpace
        /\ \A i \in 1..Len(tokens) :
               tokens[i] = "" =>
                   /\ EmptyFree(Cmd)
                   /\ IsOk => \E k \in 1..Len(args(Res)) : args(Res)[k] = ""

\* C8 amended: parse(s) is parse_from on s split at every single space; for
\* every schema that declares no empty flag and no empty command name an
\* empty token is not stripped as the name, selects no subcommand and is no
\* flag, and it is bound as an empty positional value when its position among
\* the positional tokens is within the number of rules (dropped otherwise).
C8_EmptyTokens ==
    via = "parse" =>
        /\ SplitOnEverySpace
        /\ (EmptyFree(Cmd) /\ IsOk) =>
              LET r == Stripped(Cmd, tokens)
                  n == RunLen(Cmd.flags, r)
              IN /\ tokens[1] = "" => r = tokens
                 /\ r # <<>> /\ r[1] = "" => subcommand(Res) = None
                 /\ ~has_flag(Res, "")
                 /\ \A i \in 1..Len(r) :
                        r[i] = "" =>
                            /\ i > n
                            /\ i - n <= Len(Cmd.args) => args(Res)[i - n] = ""
                            /\ i - n > Len(Cmd.args) => Len(args(Res)) < i - n

\* two adjacent spaces give an empty token that is bound to a rule
C8_Witness ==
    /\ via = "parse" /\ IsOk /\ EmptyFree(Cmd)
    /\ \E i \in 1..Len(line) - 1 : line[i] = " " /\ line[i + 1] = " "
    /\ \E k \in 1..Len(tokens) : tokens[k] # ""
    /\ \E k \in 1..Len(args(Res)) : args(Res)[k] = ""

\* C9: the call ends with a ParsedCommand or with RequiredArgMissing(name),
\* never with an abort; name is a required rule of a level that was parsed
\* and for which no token remained, so tokens alone never cause a failure.
C9_OnlyRequiredArgMissing ==
    Called =>
        /\ outcome.kind \in {"Ok", "Err"}
        /\ IsErr =>
              /\ outcome.err.variant = "RequiredArgMissing"
              /\ \E lv \in Levels(Cmd, tokens) :
                     \E i \in Unmet(lv[1], lv[2]) : lv[1].args[i].name = outcome.err.arg

\* an error raised two levels below the root
C9_Witness ==
    /\ via = "parse_from" /\ IsErr
    /\ Unmet(Cmd, tokens) = {}
    /\ \E j \in Matching(Cmd, tokens) :
           LET c == Cmd.subcommands[j]
               t == Tail(Stripped(Cmd, tokens))
           IN /\ Unmet(c, t) = {}
              /\ \E k \in Matching(c, t) : Unmet(c.subcommands[k], Tail(Stripped(c, t))) # {}

\* C10: matching a subcommand consumes no token at the parent level: on
\* success the parent's flags and args are those the same schema with its
\* subcommand list emptied produces for the same tokens.
C10_SubcommandConsumesNothing ==
    (Called /\ IsOk) =>
        LET q == ParseFrom([Cmd EXCEPT !.subcommands = <<>>], tokens) IN
        /\ q.kind = "Ok"
        /\ q.val.flags = Res.flags
        /\ q.val.args = Res.args
        /\ subcommand(Res) # None =>
              LET r == Stripped(Cmd, tokens) IN
              \/ r[1] \in Cmd.flags /\ has_flag(Res, r[1])
              \/ Cmd.args = <<>>
              \/ args(Res)[1] = r[1]

\* a matched subcommand whose name is also bound to the parent's first rule
C10_Witness ==
    /\ via = "parse_from" /\ IsOk
    /\ subcommand(Res) # None
    /\ Len(Res.args) >= 1
    /\ Res.args[1].value = subcommand(Res)[1][1]
====
